---- MODULE Spec2Model ----
(***************************************************************************)
(* Model of ml-service/main.py: the FastAPI application served by one      *)
(* uvicorn process (uvicorn.run(app, ...), one asyncio event loop).        *)
(*                                                                         *)
(* Every route is an `async def` without a single `await`, so a handler    *)
(* that has been dispatched occupies the event-loop thread until it        *)
(* returns or raises; psutil.cpu_percent(interval=1) sleeps with           *)
(* time.sleep inside that thread.  Requests that arrive meanwhile wait in  *)
(* `pending`.                                                              *)
(*                                                                         *)
(* Units: the wall clock (time.time()) is counted in milliseconds; the     *)
(* reported uptime_seconds is round(x, 2), i.e. a number of centiseconds,  *)
(* uptime_hours a number of hundredths of an hour.  Percentages are whole  *)
(* numbers: the code compares them with 90 and 95 only, so MetricValues    *)
(* holds one value of every region and both boundaries.                    *)
(***************************************************************************)
EXTENDS Integers, Sequences, FiniteSets, TLC

VARIABLES
    clock,              \* what time.time() / datetime.utcnow() return now
    start_time,         \* module global, line 29
    env,                \* the process environment variable NODE_ENV
    pending,            \* requests received and not yet dispatched
    arrived,            \* number of requests received so far
    running,            \* handler occupying the event-loop thread
    pc,                 \* position of the health_check invocation
    uptime_seconds,     \* locals of health_check
    cpu_percent,
    memory_percent,
    disk_percent,
    status,
    issues,
    exc,                \* exception in flight inside health_check
    response,           \* response of the handler that completed last
    reported_uptimes    \* uptime_seconds of the last two HealthReports sent

vars == <<clock, start_time, env, pending, arrived, running, pc,
          uptime_seconds, cpu_percent, memory_percent, disk_percent,
          status, issues, exc, response, reported_uptimes>>

locals == <<uptime_seconds, cpu_percent, memory_percent, disk_percent,
            status, issues, exc>>

-----------------------------------------------------------------------------
(* Bounds of the model *)

MaxRequests == 3
MaxPending == 2
MaxClock == 12
TickMs == 6

(* Program constants *)

DegradedThreshold == 90
CriticalThreshold == 95
HTTP_200_OK == 200
HTTP_503_SERVICE_UNAVAILABLE == 503

MetricValues == {50, DegradedThreshold, DegradedThreshold + 1,
                 CriticalThreshold, CriticalThreshold + 1}

Routes == {"root", "health", "predict", "models_status"}

Environments == {"development", "production"}

Unset == -1

NoException == [type |-> "none", message |-> ""]

NoResponse == [kind |-> "none", code |-> 0, payload |-> [status |-> "none"]]

-----------------------------------------------------------------------------
(* Pure parts of health_check *)

\* round(n / d): nearest integer, floor division as in Python
RoundDiv(n, d) == (2 * n + d) \div (2 * d)

\* round(uptime_seconds, 2), in centiseconds, from milliseconds
RoundUptimeSeconds(ms) == RoundDiv(ms, 10)

\* round(uptime_seconds / 3600, 2), in hundredths of an hour
RoundUptimeHours(ms) == RoundDiv(ms, 36000)

Uptime(now, started) == now - started

CheckCPU_ge(cpu, st) ==
    IF cpu >= DegradedThreshold
    THEN [status |-> "degraded", issues |-> Append(st.issues, "High CPU usage")]
    ELSE st

CheckCPU(cpu, st) ==
    IF cpu > DegradedThreshold
    THEN [status |-> "degraded", issues |-> Append(st.issues, "High CPU usage")]
    ELSE st

CheckMemory_prepend(mem, st) ==
    IF mem > DegradedThreshold
    THEN [status |-> "degraded", issues |-> <<"High memory usage">> \o st.issues]
    ELSE st

CheckMemory(mem, st) ==
    IF mem > DegradedThreshold
    THEN [status |-> "degraded", issues |-> Append(st.issues, "High memory usage")]
    ELSE st

CheckDisk(disk, st) ==
    IF disk > DegradedThreshold
    THEN [status |-> "degraded", issues |-> Append(st.issues, "High disk usage")]
    ELSE st

CheckCritical_ge(cpu, mem, disk, st) ==
    IF cpu >= CriticalThreshold \/ mem >= CriticalThreshold
                                \/ disk >= CriticalThreshold
    THEN [st EXCEPT !.status = "unhealthy"]
    ELSE st

CheckCritical(cpu, mem, disk, st) ==
    IF cpu > CriticalThreshold \/ mem > CriticalThreshold
                               \/ disk > CriticalThreshold
    THEN [st EXCEPT !.status = "unhealthy"]
    ELSE st

\* lines 55-56: the locals the classification starts from; `previous` is
\* what the names status and issues held before the two assignments
InitialClassification_stale(previous) ==
    [status |-> "healthy", issues |-> previous.issues]

InitialClassification(previous) ==
    [status |-> "healthy", issues |-> <<>>]

ServiceIdentity(environment) ==
    [name |-> "ml-service", version |-> "1.0.0", environment |-> environment]

HealthData(st, now, uptime, cpu, mem, disk, environment) ==
    LET health_data ==
            [status         |-> st.status,
             timestamp      |-> now,
             uptime_seconds |-> RoundUptimeSeconds(uptime),
             uptime_hours   |-> RoundUptimeHours(uptime),
             system         |-> [cpu_percent    |-> cpu,
                                 memory_percent |-> mem,
                                 disk_percent   |-> disk],
             service        |-> ServiceIdentity(environment)]
    IN  IF st.issues # <<>>
        THEN [issues |-> st.issues] @@ health_data
        ELSE health_data

RaisesUnavailable_degraded(st) == st = "degraded"

\* line 100
RaisesUnavailable(st) == st = "unhealthy"

HTTPException(status_code, detail) ==
    [type |-> "HTTPException", status_code |-> status_code, detail |-> detail]

SamplingFault(description) == [type |-> "Error", message |-> description]

Str_typename(e) == e.type

\* str(e): the message of an ordinary exception; starlette renders an
\* HTTPException as "<status_code>: <detail>"
Str(e) ==
    IF e.type = "HTTPException"
    THEN ToString(e.status_code) \o ": " \o ToString(e.detail)
    ELSE e.message

ErrorResponse(e, now) ==
    [status    |-> "unhealthy",
     timestamp |-> now,
     error     |-> Str(e),
     service   |-> [name |-> "ml-service", version |-> "1.0.0"]]

-----------------------------------------------------------------------------
Init ==
    /\ clock = TickMs
    /\ start_time = clock
    /\ env \in Environments
    /\ pending = <<>>
    /\ arrived = 0
    /\ running = "none"
    /\ pc = "idle"
    /\ uptime_seconds = Unset
    /\ cpu_percent = Unset
    /\ memory_percent = Unset
    /\ disk_percent = Unset
    /\ status = "healthy"
    /\ issues = <<>>
    /\ exc = NoException
    /\ response = NoResponse
    /\ reported_uptimes = <<>>

(* Environment *)

\* wall-clock time passes
Tick ==
    /\ clock + TickMs <= MaxClock
    /\ clock' = clock + TickMs
    /\ UNCHANGED <<start_time, env, pending, arrived, running, pc, locals,
                   response, reported_uptimes>>

\* the system clock is set back (time.time() is not monotonic)
ClockSetBack ==
    /\ clock - TickMs >= 0
    /\ clock' = clock - TickMs
    /\ UNCHANGED <<start_time, env, pending, arrived, running, pc, locals,
                   response, reported_uptimes>>

\* a client sends a request; it waits until the event loop dispatches it
Arrive(route) ==
    /\ arrived < MaxRequests
    /\ Len(pending) < MaxPending
    /\ pending' = Append(pending, route)
    /\ arrived' = arrived + 1
    /\ UNCHANGED <<clock, start_time, env, running, pc, locals, response,
                   reported_uptimes>>

(* Handlers; the event loop dispatches one when its thread is free *)

CanDispatch(route) ==
    /\ running = "none"
    /\ pending # <<>>
    /\ Head(pending) = route

root ==
    /\ CanDispatch("root")
    /\ pending' = Tail(pending)
    /\ response' = [kind |-> "root", code |-> HTTP_200_OK,
                    payload |-> [message |-> "Singapore Housing Predictor ML Service",
                                 version |-> "1.0.0",
                                 status  |-> "running"]]
    /\ UNCHANGED <<clock, start_time, env, arrived, running, pc, locals,
                   reported_uptimes>>

predict ==
    /\ CanDispatch("predict")
    /\ pending' = Tail(pending)
    /\ response' = [kind |-> "predict", code |-> HTTP_200_OK,
                    payload |-> [prediction |-> "Not implemented yet",
                                 message |-> "ML prediction endpoint is under development",
                                 timestamp |-> clock]]
    /\ UNCHANGED <<clock, start_time, env, arrived, running, pc, locals,
                   reported_uptimes>>

models_status ==
    /\ CanDispatch("models_status")
    /\ pending' = Tail(pending)
    /\ response' = [kind |-> "models_status", code |-> HTTP_200_OK,
                    payload |-> [message |-> "Model loading is under development",
                                 timestamp |-> clock]]
    /\ UNCHANGED <<clock, start_time, env, arrived, running, pc, locals,
                   reported_uptimes>>

\* health_check is entered: a new frame, nothing sampled yet
HealthStart ==
    /\ CanDispatch("health")
    /\ pending' = Tail(pending)
    /\ running' = "health"
    /\ pc' = "uptime"
    /\ uptime_seconds' = Unset
    /\ cpu_percent' = Unset
    /\ memory_percent' = Unset
    /\ disk_percent' = Unset
    /\ exc' = NoException
    /\ response' = NoResponse
    /\ UNCHANGED <<clock, start_time, env, arrived, status, issues,
                   reported_uptimes>>

\* line 46-47, then psutil.cpu_percent(interval=1) starts its window
ComputeUptime ==
    /\ pc = "uptime"
    /\ uptime_seconds' = Uptime(clock, start_time)
    /\ pc' = "cpu"
    /\ UNCHANGED <<clock, start_time, env, pending, arrived, running,
                   cpu_percent, memory_percent, disk_percent, status, issues,
                   exc, response, reported_uptimes>>

\* line 50: the window ends with a value or with an exception
SampleCpu ==
    /\ pc = "cpu"
    /\ \/ /\ \E v \in MetricValues : cpu_percent' = v
          /\ pc' = "memory"
          /\ exc' = exc
       \/ /\ exc' = SamplingFault("cpu counters unavailable")
          /\ pc' = "except"
          /\ cpu_percent' = cpu_percent
    /\ UNCHANGED <<clock, start_time, env, pending, arrived, running,
                   uptime_seconds, memory_percent, disk_percent, status,
                   issues, response, reported_uptimes>>

\* line 51
SampleMemory ==
    /\ pc = "memory"
    /\ \/ /\ \E v \in MetricValues : memory_percent' = v
          /\ pc' = "disk"
          /\ exc' = exc
       \/ /\ exc' = SamplingFault("memory counters unavailable")
          /\ pc' = "except"
          /\ memory_percent' = memory_percent
    /\ UNCHANGED <<clock, start_time, env, pending, arrived, running,
                   uptime_seconds, cpu_percent, disk_percent, status,
                   issues, response, reported_uptimes>>

\* line 52
SampleDisk ==
    /\ pc = "disk"
    /\ \/ /\ \E v \in MetricValues : disk_percent' = v
          /\ pc' = "classify"
          /\ exc' = exc
       \/ /\ exc' = SamplingFault("disk unreadable")
          /\ pc' = "except"
          /\ disk_percent' = disk_percent
    /\ UNCHANGED <<clock, start_time, env, pending, arrived, running,
                   uptime_seconds, cpu_percent, memory_percent, status,
                   issues, response, reported_uptimes>>

\* lines 55-75
Classify ==
    /\ pc = "classify"
    /\ LET s0 == InitialClassification([status |-> status, issues |-> issues])
           s1 == CheckCPU(cpu_percent, s0)
           s2 == CheckMemory(memory_percent, s1)
           s3 == CheckDisk(disk_percent, s2)
           s4 == CheckCritical(cpu_percent, memory_percent, disk_percent, s3)
       IN  /\ status' = s4.status
           /\ issues' = s4.issues
    /\ pc' = "respond"
    /\ UNCHANGED <<clock, start_time, env, pending, arrived, running,
                   uptime_seconds, cpu_percent, memory_percent, disk_percent,
                   exc, response, reported_uptimes>>

LastTwo(s) == IF Len(s) > 2 THEN Tail(s) ELSE s

\* lines 77-103: the report is built, then returned or raised inside the try
Respond ==
    /\ pc = "respond"
    /\ LET health_data ==
               HealthData([status |-> status, issues |-> issues], clock,
                          uptime_seconds, cpu_percent, memory_percent,
                          disk_percent, env)
       IN  IF RaisesUnavailable(status)
           THEN /\ exc' = HTTPException(HTTP_503_SERVICE_UNAVAILABLE, health_data)
                /\ pc' = "except"
                /\ UNCHANGED <<running, response, reported_uptimes>>
           ELSE /\ response' = [kind |-> "health", code |-> HTTP_200_OK,
                                payload |-> health_data]
                /\ reported_uptimes' =
                       LastTwo(Append(reported_uptimes, health_data.uptime_seconds))
                /\ running' = "none"
                /\ pc' = "idle"
                /\ exc' = exc
    /\ UNCHANGED <<clock, start_time, env, pending, arrived, uptime_seconds,
                   cpu_percent, memory_percent, disk_percent, status, issues>>

\* lines 105-116: `except Exception` catches whatever the try block raised
Except ==
    /\ pc = "except"
    /\ response' = [kind |-> "health", code |-> HTTP_503_SERVICE_UNAVAILABLE,
                    payload |-> ErrorResponse(exc, clock)]
    /\ running' = "none"
    /\ pc' = "idle"
    /\ UNCHANGED <<clock, start_time, env, pending, arrived, locals,
                   reported_uptimes>>

ServeNext == root \/ predict \/ models_status \/ HealthStart

Next ==
    \/ Tick
    \/ ClockSetBack
    \/ \E route \in Routes : Arrive(route)
    \/ root
    \/ predict
    \/ models_status
    \/ HealthStart
    \/ ComputeUptime
    \/ SampleCpu
    \/ SampleMemory
    \/ SampleDisk
    \/ Classify
    \/ Respond
    \/ Except

Spec == Init /\ [][Next]_vars

-----------------------------------------------------------------------------
(* Properties *)

HealthDone == response.kind = "health"

Sampled == cpu_percent >= 0 /\ memory_percent >= 0 /\ disk_percent >= 0

Faulted == exc.type = "Error"

HasField(record, field) == field \in DOMAIN record

IssuesOf(payload) == IF HasField(payload, "issues") THEN payload.issues ELSE <<>>

Contains(seq, x) == \E i \in 1..Len(seq) : seq[i] = x

AnyCritical ==
    \/ cpu_percent > CriticalThreshold
    \/ memory_percent > CriticalThreshold
    \/ disk_percent > CriticalThreshold

\* C1: a successful sample with some metric above 95 yields status
\* unhealthy and code 503, and the payload still carries an issues list
\* with the entry of every metric above 90.
C1_EscalatedKeepsIssues ==
    (HealthDone /\ Sampled /\ AnyCritical) =>
        /\ response.payload.status = "unhealthy"
        /\ response.code = HTTP_503_SERVICE_UNAVAILABLE
        /\ HasField(response.payload, "issues")
        /\ (cpu_percent > DegradedThreshold
               => Contains(IssuesOf(response.payload), "High CPU usage"))
        /\ (memory_percent > DegradedThreshold
               => Contains(IssuesOf(response.payload), "High memory usage"))
        /\ (disk_percent > DegradedThreshold
               => Contains(IssuesOf(response.payload), "High disk usage"))

\* C2: a health_check whose three samples succeeded returns a HealthReport
\* (a payload with the system record and without an error field), also
\* when its status is unhealthy and its code 503.
C2_ErrorReportOnlyOnFault ==
    (HealthDone /\ Sampled) =>
        /\ HasField(response.payload, "system")
        /\ ~ HasField(response.payload, "error")

\* C3: a successful sample with cpu, memory and disk all at most 90 yields
\* status healthy, code 200 and a payload without an issues field.
C3_HealthyUpTo90 ==
    (HealthDone /\ Sampled /\ cpu_percent <= 90 /\ memory_percent <= 90
                /\ disk_percent <= 90) =>
        /\ response.payload.status = "healthy"
        /\ response.code = 200
        /\ ~ HasField(response.payload, "issues")

C3_Witness ==
    /\ HealthDone /\ Sampled
    /\ cpu_percent = 90 /\ memory_percent = 90 /\ disk_percent = 90
    /\ response.code = 200

InDegradedBand(v) == v > 90 /\ v <= 95

\* C4: a successful sample with exactly one metric in (90, 95] and the two
\* others at most 90 yields status degraded, code 200 and an issues list
\* holding exactly the message of that metric.
C4_SingleDegraded ==
    (HealthDone /\ Sampled) =>
        /\ (InDegradedBand(cpu_percent) /\ memory_percent <= 90 /\ disk_percent <= 90)
              => /\ response.payload.status = "degraded"
                 /\ response.code = 200
                 /\ IssuesOf(response.payload) = <<"High CPU usage">>
        /\ (InDegradedBand(memory_percent) /\ cpu_percent <= 90 /\ disk_percent <= 90)
              => /\ response.payload.status = "degraded"
                 /\ response.code = 200
                 /\ IssuesOf(response.payload) = <<"High memory usage">>
        /\ (InDegradedBand(disk_percent) /\ cpu_percent <= 90 /\ memory_percent <= 90)
              => /\ response.payload.status = "degraded"
                 /\ response.code = 200
                 /\ IssuesOf(response.payload) = <<"High disk usage">>

C4_Witness ==
    /\ HealthDone /\ Sampled
    /\ cpu_percent = 90 /\ memory_percent = 95 /\ disk_percent = 50
    /\ IssuesOf(response.payload) = <<"High memory usage">>

\* C5: when sampling a metric raises, the invocation still ends with a
\* response: code 503 and an ErrorReport with status unhealthy, the
\* fault's description as error, a timestamp and the service record, and
\* neither system nor issues.
C5_FaultGivesErrorReport ==
    /\ Faulted => pc \in {"except", "idle"}
    /\ (HealthDone /\ Faulted) =>
        /\ response.code = 503
        /\ response.payload.status = "unhealthy"
        /\ HasField(response.payload, "error")
        /\ response.payload.error = exc.message
        /\ HasField(response.payload, "timestamp")
        /\ HasField(response.payload, "service")
        /\ response.payload.service.name = "ml-service"
        /\ ~ HasField(response.payload, "system")
        /\ ~ HasField(response.payload, "issues")

C5_Witness ==
    /\ HealthDone /\ Faulted
    /\ cpu_percent >= 0 /\ memory_percent >= 0 /\ disk_percent = Unset
    /\ response.payload.error = "disk unreadable"

\* C6: every response of GET /health has code 200 or 503, 200 exactly when
\* the payload's status is healthy or degraded and 503 exactly when it is
\* unhealthy.
C6_CodeAgreesWithStatus ==
    HealthDone =>
        /\ response.code \in {200, 503}
        /\ response.payload.status \in {"healthy", "degraded", "unhealthy"}
        /\ (response.code = 200) <=> (response.payload.status \in {"healthy", "degraded"})
        /\ (response.code = 503) <=> (response.payload.status = "unhealthy")

C6_Witness ==
    /\ HealthDone /\ Sampled /\ AnyCritical
    /\ response.code = 503
    /\ response.payload.status = "unhealthy"

IssueRank(message) ==
    CASE message = "High CPU usage" -> 1
      [] message = "High memory usage" -> 2
      [] message = "High disk usage" -> 3
      [] OTHER -> 0

\* C7: an issues list in a health_check output is a duplicate-free
\* subsequence of <<High CPU usage, High memory usage, High disk usage>>,
\* in that order.
C7_IssuesOrdered ==
    (HealthDone /\ HasField(response.payload, "issues")) =>
        LET list == response.payload.issues
        IN  /\ \A i \in 1..Len(list) : IssueRank(list[i]) \in 1..3
            /\ \A i, j \in 1..Len(list) :
                   i < j => IssueRank(list[i]) < IssueRank(list[j])

C7_Witness ==
    /\ HealthDone
    /\ HasField(response.payload, "issues")
    /\ Len(response.payload.issues) = 3

C9_WindowDoesNotBlock ==
    (pc = "cpu" /\ pending # <<>>) => ENABLED ServeNext

\* what an invocation returns when it runs alone in a fresh process
AloneClassification(cpu, mem, disk) ==
    CheckCritical(cpu, mem, disk,
        CheckDisk(disk,
            CheckMemory(mem,
                CheckCPU(cpu, [status |-> "healthy", issues |-> <<>>]))))

OwnResult ==
    /\ (HealthDone /\ Faulted) =>
          /\ response.code = 503
          /\ response.payload.status = "unhealthy"
          /\ IssuesOf(response.payload) = <<>>
    /\ (HealthDone /\ Sampled) =>
          LET alone == AloneClassification(cpu_percent, memory_percent, disk_percent)
          IN  /\ response.payload.status = alone.status
              /\ response.code = IF alone.status = "unhealthy" THEN 503 ELSE 200
              /\ IssuesOf(response.payload) =
                     IF alone.status = "unhealthy" THEN <<>> ELSE alone.issues

====
